---- MODULE Spec2Model ----
(***************************************************************************)
(* Model of UltimateStatLogger (src/ultimate_logger.py): the possession /  *)
(* event state machine that turns player clicks and button presses into an *)
(* ordered event log.  One action per public method; a call that raises    *)
(* ValueError is a step that keeps whatever the method had already         *)
(* assigned before the raise.                                              *)
(***************************************************************************)
EXTENDS Integers, Sequences, FiniteSets, TLC

VARIABLES
    onfield,                \* self.onfield: team key -> ordered list of names
    events,                 \* self.events: the log, a list of rows
    point_number,           \* self.point_number
    possession_team,        \* self.possession_team: "A", "B" or None
    last_holder,            \* self.last_holder: PlayerRef or NoPlayer
    last_throw,             \* self.last_throw: <<>> (None) or <<thrower, receiver>>
    last_clicked,           \* self.last_clicked: PlayerRef or NoPlayer
    await_new_holder_team,  \* self.await_new_holder_team: "A", "B" or None
    sub_mode,               \* self.sub_mode
    sub_out,                \* self.sub_out: PlayerRef or NoPlayer
    await_pull,             \* self.await_pull
    call,                   \* the most recent call: method, arguments, outcome
    calls,                  \* the number of calls made so far
    pre,                    \* the session state the most recent call started in
    click_run               \* the same-team clicks made in a row from a state
                            \* with no holder, and the log they started from

vars == <<onfield, events, point_number, possession_team, last_holder,
          last_throw, last_clicked, await_new_holder_team, sub_mode, sub_out,
          await_pull, call, calls, pre, click_run>>

\* The session state of the logger, as one record.
State ==
    [onfield |-> onfield, events |-> events, point_number |-> point_number,
     possession_team |-> possession_team, last_holder |-> last_holder,
     last_throw |-> last_throw, last_clicked |-> last_clicked,
     await_new_holder_team |-> await_new_holder_team, sub_mode |-> sub_mode,
     sub_out |-> sub_out, await_pull |-> await_pull]

-----------------------------------------------------------------------------
\* Bounds of the model.

MaxCalls == 5       \* longest session explored, in calls
MaxUndo == 2        \* largest n passed to undo_last
MaxLongCalls == 6   \* longest session explored by SpecLong, in calls

-----------------------------------------------------------------------------
\* Values.

TeamKey == {"A", "B"}

None == "None"

PlayerRef(team, name) == [team |-> team, name |-> name]

NoPlayer == PlayerRef(None, None)

\* The lineups the logger is constructed with (two players a team here).
onfield_A == <<"A1", "A2">>
onfield_B == <<"B1", "B2">>

\* The full rosters: the starting lineups and one bench player a team.
roster_lists == [A |-> {"A1", "A2", "A3"}, B |-> {"B1", "B2", "B3"}]

other_team_Same(team) == team

other_team(team) == IF team = "A" THEN "B" ELSE "A"

Digit(d) ==
    CASE d = 0 -> "0" [] d = 1 -> "1" [] d = 2 -> "2" [] d = 3 -> "3"
      [] d = 4 -> "4" [] d = 5 -> "5" [] d = 6 -> "6" [] d = 7 -> "7"
      [] d = 8 -> "8" [] d = 9 -> "9"

\* str(int) for a non-negative integer: its decimal digits.
RECURSIVE str(_)
str(n) == IF n < 10 THEN Digit(n) ELSE str(n \div 10) \o Digit(n % 10)

\* json.dumps of a list of names, as the sequence of its tokens: brackets,
\* quotes, the names and the ", " separators.
RECURSIVE json_dumps_items(_)
json_dumps_items(names) ==
    IF names = <<>> THEN <<>>
    ELSE <<"\"", Head(names), "\"">> \o
         (IF Tail(names) = <<>> THEN <<>> ELSE <<", ">>) \o
         json_dumps_items(Tail(names))

json_dumps(names) == <<"[">> \o json_dumps_items(names) \o <<"]">>

\* "x in list"
In(name, list) == \E i \in 1..Len(list) : list[i] = name

\* list.index(x): the first position holding x
index(list, name) == CHOOSE i \in 1..Len(list) :
                        list[i] = name /\ \A j \in 1..(i - 1) : list[j] # name

\* The wall clock, read at second precision: the clock of the model ticks
\* once per call, so the rows of one call carry one timestamp.
now_iso == calls

_make_row_OneLineupTwice(self, team, event, from_name, to_name) ==
    [Timestamp |-> now_iso, Team |-> team, Event |-> event,
     Point |-> str(self.point_number), From |-> from_name, To |-> to_name,
     OnFieldTeamA |-> json_dumps(self.onfield["A"]),
     OnFieldTeamB |-> json_dumps(self.onfield["A"])]

\* self is the session state the row is made from.
_make_row(self, team, event, from_name, to_name) ==
    [Timestamp |-> now_iso, Team |-> team, Event |-> event, Point |-> str(self.point_number),
     From |-> from_name, To |-> to_name,
     OnFieldTeamA |-> json_dumps(self.onfield["A"]),
     OnFieldTeamB |-> json_dumps(self.onfield["B"])]

\* The record of a call: the method, its arguments (None / 0 where it has
\* none), the ValueError it raised ("" when it returned) and the rows it
\* returned.
Call(op, team, name, n, error, created) ==
    [op |-> op, team |-> team, name |-> name, n |-> n, error |-> error,
     created |-> created]

-----------------------------------------------------------------------------
Init ==
    /\ onfield = [A |-> onfield_A, B |-> onfield_B]
    /\ events = <<>>
    /\ point_number = 1
    /\ possession_team = None
    /\ last_holder = NoPlayer
    /\ last_throw = <<>>
    /\ last_clicked = NoPlayer
    /\ await_new_holder_team = None
    /\ sub_mode = FALSE
    /\ sub_out = NoPlayer
    /\ await_pull = FALSE
    /\ call = Call("__init__", None, None, 0, "", <<>>)
    /\ calls = 0
    /\ pre = [onfield |-> [A |-> onfield_A, B |-> onfield_B], events |-> <<>>,
              point_number |-> 1, possession_team |-> None,
              last_holder |-> NoPlayer, last_throw |-> <<>>,
              last_clicked |-> NoPlayer, await_new_holder_team |-> None,
              sub_mode |-> FALSE, sub_out |-> NoPlayer, await_pull |-> FALSE]
    /\ click_run = [team |-> None, names |-> <<>>, base |-> <<>>]

-----------------------------------------------------------------------------
\* Substitution flow (a click while sub_mode is set).

\* _apply_sub raises when the OUT player is not on the field.
_apply_sub_raises(team, out_player) == ~In(out_player, onfield[team])

_apply_sub_onfield_Append(team, out_player, in_player) ==
    LET list == onfield[team]
        idx == index(list, out_player)
    IN [onfield EXCEPT ![team] = SubSeq(list, 1, idx - 1) \o
                                 SubSeq(list, idx + 1, Len(list)) \o
                                 <<in_player>>]

\* The on-field lists after _apply_sub: IN takes the list position of OUT.
_apply_sub_onfield(team, out_player, in_player) ==
    [onfield EXCEPT ![team][index(onfield[team], out_player)] = in_player]

_apply_sub_last_holder_Kept(team, out_player) == last_holder

\* The holder after _apply_sub: voided when the holder is the OUT player.
_apply_sub_last_holder(team, out_player) ==
    IF last_holder # NoPlayer /\ last_holder.team = team
                              /\ last_holder.name = out_player
    THEN NoPlayer ELSE last_holder

_handle_sub_click_error_NoOnFieldCheck(p) ==
    IF sub_out = NoPlayer
    THEN IF ~In(p.name, onfield[p.team])
         THEN "Player is not currently on-field for team." ELSE ""
    ELSE IF p.team # sub_out.team
         THEN "Substitution must be within the same team."
         ELSE ""

\* The ValueError a substitution click raises, "" when it raises none.
_handle_sub_click_error(p) ==
    IF sub_out = NoPlayer
    THEN IF ~In(p.name, onfield[p.team])
         THEN "Player is not currently on-field for team." ELSE ""
    ELSE IF p.team # sub_out.team
         THEN "Substitution must be within the same team."
         ELSE IF In(p.name, onfield[p.team])
              THEN "Player is already on-field for team."
              ELSE IF _apply_sub_raises(p.team, sub_out.name)
                   THEN "Cannot sub out: not on-field for team." ELSE ""

_handle_sub_click(p) ==
    LET error == _handle_sub_click_error(p) IN
    IF error # ""
    THEN /\ call' = Call("click_player", p.team, p.name, 0, error, <<>>)
         /\ UNCHANGED <<onfield, events, point_number, possession_team,
                        last_holder, last_throw, await_new_holder_team,
                        sub_mode, sub_out, await_pull>>
    ELSE IF sub_out = NoPlayer
    THEN \* OUT
         /\ sub_out' = p
         /\ call' = Call("click_player", p.team, p.name, 0, "", <<>>)
         /\ UNCHANGED <<onfield, events, point_number, possession_team,
                        last_holder, last_throw, await_new_holder_team,
                        sub_mode, await_pull>>
    ELSE \* IN
         LET swapped == _apply_sub_onfield(p.team, sub_out.name, p.name)
             row == _make_row([State EXCEPT !.onfield = swapped],
                              p.team, "SUB", sub_out.name, p.name)
         IN /\ onfield' = swapped
            /\ last_holder' = _apply_sub_last_holder(p.team, sub_out.name)
            /\ events' = Append(events, row)
            /\ sub_mode' = FALSE
            /\ sub_out' = NoPlayer
            /\ call' = Call("click_player", p.team, p.name, 0, "", <<row>>)
            /\ UNCHANGED <<point_number, possession_team, last_throw,
                           await_new_holder_team, await_pull>>

-----------------------------------------------------------------------------
\* Click resolution (a click while sub_mode is not set).

AwaitingNewHolder_Unchecked == FALSE

\* Awaiting a new holder after O / manual TURN / P.
AwaitingNewHolder == await_new_holder_team # None

AwaitingPull_Unchecked == FALSE

\* Post-score, awaiting a Pull.
AwaitingPull == await_pull

\* Start of point: no possession and no holder.
IsFirstHolder == possession_team = None /\ last_holder = NoPlayer

\* The click is on the player holding the disc.
IsSelfClick(p) ==
    last_holder # NoPlayer /\ p.team = possession_team
                           /\ p.name = last_holder.name

PassRow_Reversed(p) ==
    _make_row(State, possession_team, "PASS", p.name, last_holder.name)

\* The row of a same-team click.
PassRow(p) == _make_row(State, possession_team, "PASS", last_holder.name, p.name)

CrossTeamRows_DFirst(p) ==
    << _make_row(State, p.team, "D", p.name, ""),
       _make_row(State, possession_team, "TURN", last_holder.name, "") >>

\* The rows of a cross-team click, in the order they are appended.
CrossTeamRows(p) ==
    << _make_row(State, possession_team, "TURN", last_holder.name, ""),
       _make_row(State, p.team, "D", p.name, "") >>

SetHolder_KeepsPossession(p, clears_throw, clears_await) ==
    /\ last_holder' = p
    /\ last_throw' = IF clears_throw THEN <<>> ELSE last_throw
    /\ await_new_holder_team' = IF clears_await THEN None
                                ELSE await_new_holder_team
    /\ UNCHANGED <<events, possession_team>>

\* The click establishes the holder and appends nothing.
SetHolder(p, clears_throw, clears_await) ==
    /\ possession_team' = p.team
    /\ last_holder' = p
    /\ last_throw' = IF clears_throw THEN <<>> ELSE last_throw
    /\ await_new_holder_team' = IF clears_await THEN None
                                ELSE await_new_holder_team
    /\ UNCHANGED events

\* The click is ignored.
Ignored ==
    UNCHANGED <<events, possession_team, last_holder, last_throw,
                await_new_holder_team>>

ResolveClick(p) ==
    /\ UNCHANGED <<onfield, point_number, sub_mode, sub_out, await_pull>>
    /\ IF AwaitingNewHolder
       THEN /\ IF p.team # await_new_holder_team
               THEN Ignored
               ELSE SetHolder(p, TRUE, TRUE)
            /\ call' = Call("click_player", p.team, p.name, 0, "", <<>>)
       ELSE IF AwaitingPull
       THEN /\ Ignored
            /\ call' = Call("click_player", p.team, p.name, 0, "", <<>>)
       ELSE IF IsFirstHolder
       THEN /\ SetHolder(p, TRUE, FALSE)
            /\ call' = Call("click_player", p.team, p.name, 0, "", <<>>)
       ELSE IF IsSelfClick(p)
       THEN /\ Ignored
            /\ call' = Call("click_player", p.team, p.name, 0, "", <<>>)
       ELSE IF last_holder # NoPlayer /\ p.team = possession_team
       THEN \* same team: PASS
            /\ events' = Append(events, PassRow(p))
            /\ last_throw' = <<last_holder, p>>
            /\ last_holder' = p
            /\ UNCHANGED <<possession_team, await_new_holder_team>>
            /\ call' = Call("click_player", p.team, p.name, 0, "",
                            <<PassRow(p)>>)
       ELSE IF last_holder # NoPlayer /\ p.team # possession_team
       THEN \* cross team: TURN (thrower) + D (clicked defender)
            /\ events' = events \o CrossTeamRows(p)
            /\ possession_team' = p.team
            /\ last_holder' = p
            /\ last_throw' = <<>>
            /\ UNCHANGED await_new_holder_team
            /\ call' = Call("click_player", p.team, p.name, 0, "",
                            CrossTeamRows(p))
       ELSE \* fallback: last_holder is None
            /\ SetHolder(p, FALSE, FALSE)
            /\ call' = Call("click_player", p.team, p.name, 0, "", <<>>)

click_player_RecordsHandledOnly(team, player) ==
    LET p == PlayerRef(team, player) IN
    /\ last_clicked' = IF ~sub_mode /\ ~AwaitingNewHolder /\ AwaitingPull
                     THEN last_clicked ELSE p
    /\ IF sub_mode THEN _handle_sub_click(p) ELSE ResolveClick(p)

click_player(team, player) ==
    LET p == PlayerRef(team, player) IN
    /\ last_clicked' = p
    /\ IF sub_mode THEN _handle_sub_click(p) ELSE ResolveClick(p)

-----------------------------------------------------------------------------
\* Button presses.

Raise_AfterPop(op, error) ==
    /\ call' = Call(op, None, None, 0, error, <<>>)
    /\ events' = SubSeq(events, 1, Len(events) - 1)
    /\ UNCHANGED <<onfield, point_number, possession_team, last_holder,
                   last_throw, last_clicked, await_new_holder_team, sub_mode,
                   sub_out, await_pull>>

\* A button press that raises: nothing was assigned before the raise.
Raise(op, error) ==
    /\ call' = Call(op, None, None, 0, error, <<>>)
    /\ UNCHANGED <<onfield, events, point_number, possession_team,
                   last_holder, last_throw, last_clicked,
                   await_new_holder_team, sub_mode, sub_out, await_pull>>

press_score_error ==
    IF possession_team = None
    THEN "Cannot score: no possession/team context."
    ELSE IF last_clicked = NoPlayer
    THEN "Click the scoring receiver, then press S."
    ELSE IF last_throw # <<>> THEN ""
    ELSE IF last_holder # NoPlayer /\ last_clicked.team = possession_team
    THEN ""
    ELSE "Cannot resolve thrower/receiver for S. Click a receiver on the possession team."

ScoreThrow_ClickFirst ==
    IF last_holder # NoPlayer /\ last_clicked.team = possession_team
    THEN <<last_holder, last_clicked>> ELSE last_throw

\* <<thrower, receiver>> of a score.
ScoreThrow ==
    IF last_throw # <<>> THEN last_throw ELSE <<last_holder, last_clicked>>

ScoreRow_AfterIncrement ==
    _make_row([State EXCEPT !.point_number = @ + 1], possession_team, "S",
              ScoreThrow[1].name, ScoreThrow[2].name)

ScoreRow ==
    _make_row(State, possession_team, "S", ScoreThrow[1].name,
              ScoreThrow[2].name)

press_score ==
    IF press_score_error # ""
    THEN Raise("press_score", press_score_error)
    ELSE LET row == ScoreRow
         IN /\ events' = Append(events, row)
            /\ point_number' = point_number + 1
            /\ possession_team' = None
            /\ last_holder' = NoPlayer
            /\ last_throw' = <<>>
            /\ await_new_holder_team' = None
            /\ await_pull' = TRUE
            /\ call' = Call("press_score", None, None, 0, "", <<row>>)
            /\ UNCHANGED <<onfield, last_clicked, sub_mode, sub_out>>
        
press_drop_error ==
    IF possession_team = None \/ last_clicked = NoPlayer
    THEN "Click the dropping receiver (possession team) before pressing O."
    ELSE IF last_clicked.team # possession_team
    THEN "Dropper must be on the team in possession."
    ELSE ""

RevokesTrailingPass_AnyReceiver(dropper) ==
    /\ events # <<>>
    /\ events[Len(events)].Event = "PASS"
    /\ events[Len(events)].Team = possession_team

\* The log ends with a PASS of the possession team to the dropper.
RevokesTrailingPass(dropper) ==
    /\ events # <<>>
    /\ events[Len(events)].Event = "PASS"
    /\ events[Len(events)].Team = possession_team
    /\ events[Len(events)].To = dropper.name

press_drop ==
    IF press_drop_error # ""
    THEN Raise("press_drop", press_drop_error)
    ELSE LET dropper == last_clicked
             kept == IF RevokesTrailingPass(dropper)
                     THEN SubSeq(events, 1, Len(events) - 1) ELSE events
             row == _make_row(State, possession_team, "O", dropper.name, "")
         IN /\ events' = Append(kept, row)
            /\ await_new_holder_team' = other_team(possession_team)
            /\ possession_team' = other_team(possession_team)
            /\ last_holder' = NoPlayer
            /\ last_throw' = <<>>
            /\ call' = Call("press_drop", None, None, 0, "", <<row>>)
            /\ UNCHANGED <<onfield, point_number, last_clicked, sub_mode,
                           sub_out, await_pull>>
        
press_turn_error_NoHolderCheck ==
    IF possession_team = None
    THEN "Click the thrower (current holder) before pressing Turn."
    ELSE ""

press_turn_error ==
    IF possession_team = None \/ last_holder = NoPlayer
    THEN "Click the thrower (current holder) before pressing Turn."
    ELSE ""

press_turn ==
    IF press_turn_error # ""
    THEN Raise("press_turn", press_turn_error)
    ELSE LET row == _make_row(State, possession_team, "TURN",
                              last_holder.name, "")
         IN /\ events' = Append(events, row)
            /\ await_new_holder_team' = other_team(possession_team)
            /\ possession_team' = other_team(possession_team)
            /\ last_holder' = NoPlayer
            /\ last_throw' = <<>>
            /\ call' = Call("press_turn", None, None, 0, "", <<row>>)
            /\ UNCHANGED <<onfield, point_number, last_clicked, sub_mode,
                           sub_out, await_pull>>
        
press_pull_error ==
    IF last_clicked = NoPlayer THEN "Click the puller, then press P." ELSE ""

press_pull_KeepsAwaitPull ==
    IF press_pull_error # ""
    THEN Raise("press_pull", press_pull_error)
    ELSE LET puller == last_clicked
             row == _make_row(State, puller.team, "P", puller.name, "")
         IN /\ events' = Append(events, row)
            /\ possession_team' = None
            /\ last_holder' = NoPlayer
            /\ last_throw' = <<>>
            /\ await_new_holder_team' = other_team(puller.team)
            /\ call' = Call("press_pull", None, None, 0, "", <<row>>)
            /\ UNCHANGED <<onfield, point_number, last_clicked, sub_mode,
                           sub_out, await_pull>>

press_pull ==
    IF press_pull_error # ""
    THEN Raise("press_pull", press_pull_error)
    ELSE LET puller == last_clicked
             row == _make_row(State, puller.team, "P", puller.name, "")
         IN /\ events' = Append(events, row)
            /\ possession_team' = None
            /\ last_holder' = NoPlayer
            /\ last_throw' = <<>>
            /\ await_new_holder_team' = other_team(puller.team)
            /\ await_pull' = FALSE
            /\ call' = Call("press_pull", None, None, 0, "", <<row>>)
            /\ UNCHANGED <<onfield, point_number, last_clicked, sub_mode,
                           sub_out>>
        
start_sub ==
    /\ sub_mode' = TRUE
    /\ sub_out' = NoPlayer
    /\ call' = Call("start_sub", None, None, 0, "", <<>>)
    /\ UNCHANGED <<onfield, events, point_number, possession_team,
                   last_holder, last_throw, last_clicked,
                   await_new_holder_team, await_pull>>

Min(a, b) == IF a < b THEN a ELSE b

UndoCount_One(n) == Min(1, Len(events))

\* The number of rows undo_last(n) pops.
UndoCount(n) == Min(n, Len(events))

\* An undo that also takes back the point of every S row it removes.
undo_last_Rewinding(n) ==
    /\ events' = SubSeq(events, 1, Len(events) - UndoCount(n))
    /\ point_number' = point_number -
          Cardinality({i \in (Len(events) - UndoCount(n) + 1)..Len(events) :
                          events[i].Event = "S"})
    /\ call' = Call("undo_last", None, None, n, "", <<>>)
    /\ UNCHANGED <<onfield, possession_team, last_holder, last_throw,
                   last_clicked, await_new_holder_team, sub_mode, sub_out,
                   await_pull>>

undo_last_FromFront(n) ==
    /\ events' = SubSeq(events, UndoCount(n) + 1, Len(events))
    /\ call' = Call("undo_last", None, None, n, "", <<>>)
    /\ UNCHANGED <<onfield, point_number, possession_team, last_holder,
                   last_throw, last_clicked, await_new_holder_team, sub_mode,
                   sub_out, await_pull>>

undo_last(n) ==
    /\ events' = SubSeq(events, 1, Len(events) - UndoCount(n))
    /\ call' = Call("undo_last", None, None, n, "", <<>>)
    /\ UNCHANGED <<onfield, point_number, possession_team, last_holder,
                   last_throw, last_clicked, await_new_holder_team, sub_mode,
                   sub_out, await_pull>>

-----------------------------------------------------------------------------
\* No run of same-team clicks is under way.
NoRun == [team |-> None, names |-> <<>>, base |-> <<>>]

\* The run of same-team clicks after a click on p: the click extends the run
\* when it is on the run's team and does not name the holder, starts a run
\* when it is made in normal play (no sub mode, no waiting flag) with no
\* holder, and ends it otherwise.
RunAfterClick(p) ==
    IF sub_mode THEN NoRun
    ELSE IF click_run.names # <<>> /\ p.team = click_run.team /\ p # last_holder
    THEN [click_run EXCEPT !.names = Append(@, p.name)]
    ELSE IF /\ click_run.names = <<>>
            /\ last_holder = NoPlayer
            /\ await_new_holder_team = None
            /\ ~await_pull
    THEN [team |-> p.team, names |-> <<p.name>>, base |-> events]
    ELSE NoRun

\* One call of the session, recorded with the state it started in.
Recorded(run) ==
    /\ calls < MaxCalls
    /\ calls' = calls + 1
    /\ pre' = State
    /\ click_run' = run

Next ==
    \/ \E team \in TeamKey : \E player \in roster_lists[team] :
          click_player(team, player)
             /\ Recorded(RunAfterClick(PlayerRef(team, player)))
    \/ press_score /\ Recorded(NoRun)
    \/ press_drop /\ Recorded(NoRun)
    \/ press_turn /\ Recorded(NoRun)
    \/ press_pull /\ Recorded(NoRun)
    \/ start_sub /\ Recorded(NoRun)
    \/ \E n \in 0..MaxUndo : undo_last(n) /\ Recorded(NoRun)

Spec == Init /\ [][Next]_vars

\* The same calls, in sessions one call longer.
RecordedLong(run) ==
    /\ calls < MaxLongCalls
    /\ calls' = calls + 1
    /\ pre' = State
    /\ click_run' = run

NextLong ==
    \/ \E team \in TeamKey : \E player \in roster_lists[team] :
          click_player(team, player)
             /\ RecordedLong(RunAfterClick(PlayerRef(team, player)))
    \/ press_score /\ RecordedLong(NoRun)
    \/ press_drop /\ RecordedLong(NoRun)
    \/ press_turn /\ RecordedLong(NoRun)
    \/ press_pull /\ RecordedLong(NoRun)
    \/ start_sub /\ RecordedLong(NoRun)
    \/ \E n \in 0..MaxUndo : undo_last(n) /\ RecordedLong(NoRun)

SpecLong == Init /\ [][NextLong]_vars

TypeOK ==
    /\ possession_team \in TeamKey \cup {None}
    /\ await_new_holder_team \in TeamKey \cup {None}
    /\ point_number \in 1..(MaxCalls + 1)
    /\ Len(events) <= 2 * MaxCalls
    /\ sub_mode \in BOOLEAN /\ await_pull \in BOOLEAN
    /\ last_throw = <<>> \/ Len(last_throw) = 2

-----------------------------------------------------------------------------
\* Vocabulary of the properties.

Buttons == {"press_score", "press_drop", "press_turn", "press_pull"}

\* The other one of the two teams.
Opponent(team) == CHOOSE t \in TeamKey : t # team

\* The player the most recent click_player call named.
Clicked == [team |-> call.team, name |-> call.name]

\* The most recent call was a click handled by click resolution.
PlayClick == call.op = "click_player" /\ ~pre.sub_mode

\* The most recent call was a click handled by the substitution flow.
SubClick == call.op = "click_player" /\ pre.sub_mode

Succeeded(op) == call.op = op /\ call.error = ""

Last(rows) == rows[Len(rows)]

Front(rows) == SubSeq(rows, 1, Len(rows) - 1)

IsPrefix(short, long) ==
    Len(short) <= Len(long) /\ SubSeq(long, 1, Len(short)) = short

-----------------------------------------------------------------------------
\* C1: in normal play (no sub mode, no waiting flag) with a holder, a click
\* on a player of the team without possession appends exactly two rows, a
\* TURN row (Team = the team that had possession, From = the previous holder,
\* To empty) and then a D row (Team = the clicked team, From = the clicked
\* player, To empty); afterwards possession_team is the clicked team,
\* last_holder is the clicked player and last_throw is unset.

CrossTeamClick ==
    /\ PlayClick
    /\ pre.await_new_holder_team = None
    /\ ~pre.await_pull
    /\ pre.last_holder # NoPlayer
    /\ call.team # pre.possession_team

C1_CrossTeamClickLogsTurnThenD ==
    CrossTeamClick =>
        /\ call.error = ""
        /\ Len(call.created) = 2
        /\ events = pre.events \o call.created
        /\ call.created[1].Event = "TURN"
        /\ call.created[1].Team = pre.possession_team
        /\ call.created[1].Team = Opponent(call.team)
        /\ call.created[1].From = pre.last_holder.name
        /\ call.created[1].To = ""
        /\ call.created[2].Event = "D"
        /\ call.created[2].Team = call.team
        /\ call.created[2].From = call.name
        /\ call.created[2].To = ""
        /\ possession_team = call.team
        /\ last_holder = Clicked
        /\ last_throw = <<>>

C1_Witness == CrossTeamClick /\ Len(events) = Len(pre.events) + 2

-----------------------------------------------------------------------------
\* C2: from a state of normal play with no holder, k >= 1 clicks in a row on
\* players of one team, none of them on the current holder, append exactly
\* k-1 PASS rows of that team, chained (row i goes From the i-th To the
\* (i+1)-th clicked player); afterwards last_holder is the last clicked
\* player and, once a PASS was logged, last_throw is the pair of the last PASS.

C2_SameTeamClicksChainPasses ==
    click_run.names # <<>> =>
        LET k == Len(click_run.names)
            n == Len(click_run.base)
            player(i) == PlayerRef(click_run.team, click_run.names[i])
        IN /\ Len(events) = n + k - 1
           /\ IsPrefix(click_run.base, events)
           /\ \A i \in 1..(k - 1) :
                 /\ events[n + i].Event = "PASS"
                 /\ events[n + i].Team = click_run.team
                 /\ events[n + i].From = click_run.names[i]
                 /\ events[n + i].To = click_run.names[i + 1]
           /\ last_holder = player(k)
           /\ possession_team = click_run.team
           /\ k >= 2 => last_throw = <<player(k - 1), player(k)>>

C2_Witness == Len(click_run.names) = 3

-----------------------------------------------------------------------------
\* C3: a successful press_drop removes the last row of the log exactly when
\* that row is a PASS of the possession team whose To is the dropper
\* (last_clicked), and removes nothing else; it then appends exactly one O row
\* (Team = the team that had possession, From = dropper, To empty).  The log
\* length is unchanged with a matching trailing PASS and grows by one without;
\* either way possession_team flips, await_new_holder_team is the new
\* possession team, and last_holder and last_throw are unset.

TrailingPassToDropper ==
    /\ pre.events # <<>>
    /\ Last(pre.events).Event = "PASS"
    /\ Last(pre.events).Team = pre.possession_team
    /\ Last(pre.events).To = pre.last_clicked.name

C3_DropRevokesOnlyMatchingPass ==
    Succeeded("press_drop") =>
        /\ pre.possession_team \in TeamKey
        /\ events # <<>>
        /\ Front(events) = IF TrailingPassToDropper
                           THEN Front(pre.events) ELSE pre.events
        /\ Len(events) = IF TrailingPassToDropper
                         THEN Len(pre.events) ELSE Len(pre.events) + 1
        /\ Last(events).Event = "O"
        /\ Last(events).Team = pre.possession_team
        /\ Last(events).From = pre.last_clicked.name
        /\ Last(events).To = ""
        /\ possession_team = Opponent(pre.possession_team)
        /\ await_new_holder_team = Opponent(pre.possession_team)
        /\ last_holder = NoPlayer
        /\ last_throw = <<>>

\* A drop that revoked the trailing PASS to the dropper.
C3_Witness ==
    /\ Succeeded("press_drop")
    /\ TrailingPassToDropper
    /\ Len(events) = Len(pre.events)

-----------------------------------------------------------------------------
\* C4: a successful press_score appends exactly one S row, credited to
\* possession_team and carrying the point number before the call, increases
\* point_number by exactly 1, sets await_pull, and unsets possession_team,
\* last_holder, last_throw and await_new_holder_team.

C4_ScoreEndsPoint ==
    Succeeded("press_score") =>
        /\ pre.possession_team \in TeamKey
        /\ events # <<>>
        /\ Front(events) = pre.events
        /\ Last(events).Event = "S"
        /\ Last(events).Team = pre.possession_team
        /\ Last(events).Point = str(pre.point_number)
        /\ point_number = pre.point_number + 1
        /\ await_pull = TRUE
        /\ possession_team = None
        /\ last_holder = NoPlayer
        /\ last_throw = <<>>
        /\ await_new_holder_team = None

\* The score that ends the second point.
C4_Witness == Succeeded("press_score") /\ pre.point_number = 2

-----------------------------------------------------------------------------
\* C5: await_pull is raised by a successful press_score and lowered by
\* nothing but a successful press_pull; in between, whatever is called, no
\* PASS, TURN, D, O or S row is appended (every appended row is a SUB row of
\* the substitution flow), a click outside sub mode returns no row, and
\* possession_team and last_holder stay unset.

C5_NoPlayBetweenScoreAndPull ==
    /\ (await_pull /\ ~pre.await_pull) => Succeeded("press_score")
    /\ Succeeded("press_score") => await_pull
    /\ (pre.await_pull /\ ~Succeeded("press_pull")) =>
          /\ await_pull
          /\ possession_team = None
          /\ last_holder = NoPlayer
          /\ \/ IsPrefix(events, pre.events)
             \/ /\ events = pre.events \o call.created
                /\ \A i \in 1..Len(call.created) :
                      call.created[i].Event = "SUB"
          /\ PlayClick => (call.created = <<>> /\ events = pre.events)
    /\ (pre.await_pull /\ Succeeded("press_pull")) => ~await_pull

\* A click outside sub mode between a score and the pull.
C5_Witness == pre.await_pull /\ PlayClick

-----------------------------------------------------------------------------
\* C6: a successful press_pull appends exactly one P row (Team = team of
\* last_clicked, From = last_clicked, To empty), unsets possession_team,
\* last_holder and last_throw, awaits the team opposite the puller and lowers
\* await_pull.  While that wait lasts, a click outside sub mode by the
\* puller's team appends no row and establishes no holder, and the first
\* click by the receiving team sets possession_team to that team and
\* last_holder to the clicked player, ends the wait and appends no row.

\* The state a pull leaves until the receiving team clicks.
AwaitsReceiver(s) ==
    s.await_new_holder_team # None /\ s.possession_team = None

C6_PullThenReceiverEstablishesHolder ==
    /\ Succeeded("press_pull") =>
          /\ events # <<>>
          /\ Front(events) = pre.events
          /\ Last(events).Event = "P"
          /\ Last(events).Team = pre.last_clicked.team
          /\ Last(events).From = pre.last_clicked.name
          /\ Last(events).To = ""
          /\ possession_team = None
          /\ last_holder = NoPlayer
          /\ last_throw = <<>>
          /\ await_new_holder_team = Opponent(pre.last_clicked.team)
          /\ await_pull = FALSE
    \* the wait starts at a pull only, and lasts until the receiver clicks
    /\ (AwaitsReceiver(State) /\ ~AwaitsReceiver(pre)) => Succeeded("press_pull")
    /\ (AwaitsReceiver(pre) /\ ~AwaitsReceiver(State)) =>
          (PlayClick /\ call.team = pre.await_new_holder_team)
    /\ (AwaitsReceiver(pre) /\ PlayClick) =>
          IF call.team # pre.await_new_holder_team
          THEN /\ call.created = <<>>
               /\ events = pre.events
               /\ possession_team = None
               /\ last_holder = NoPlayer
               /\ await_new_holder_team = pre.await_new_holder_team
          ELSE /\ call.created = <<>>
               /\ events = pre.events
               /\ possession_team = call.team
               /\ last_holder = Clicked
               /\ await_new_holder_team = None

\* The receiving team's click after a pull, the log still ending with the P row.
C6_Witness ==
    /\ AwaitsReceiver(pre)
    /\ PlayClick
    /\ call.team = pre.await_new_holder_team
    /\ events # <<>>
    /\ Last(events).Event = "P"
    /\ Last(events).Team = Opponent(call.team)

-----------------------------------------------------------------------------
\* C7: the IN click of a substitution (sub mode, OUT recorded, the clicked
\* player of OUT's team T and not on the field) succeeds: it puts IN at
\* exactly the list position OUT held in onfield[T], leaves every other
\* position and the other team's list unchanged (lengths unchanged, no name
\* twice), appends exactly one SUB row (Team = T, From = OUT, To = IN) and
\* leaves sub mode with sub_out unset.

NoDuplicates(list) ==
    \A i, j \in 1..Len(list) : list[i] = list[j] => i = j

SubInClick ==
    /\ SubClick
    /\ pre.sub_out # NoPlayer
    /\ call.team = pre.sub_out.team
    /\ ~In(call.name, pre.onfield[call.team])

C7_SubstitutionSwapsInPlace ==
    SubInClick =>
        LET T == pre.sub_out.team
            before == pre.onfield[T]
            after == onfield[T]
        IN /\ call.error = ""
           /\ Len(after) = Len(before)
           /\ \E i \in 1..Len(before) :
                 /\ before[i] = pre.sub_out.name
                 /\ after[i] = call.name
                 /\ \A j \in 1..Len(before) : j # i => after[j] = before[j]
           /\ onfield[Opponent(T)] = pre.onfield[Opponent(T)]
           /\ NoDuplicates(onfield["A"]) /\ NoDuplicates(onfield["B"])
           /\ events = Append(pre.events, call.created[1])
           /\ Len(call.created) = 1
           /\ Last(events).Event = "SUB"
           /\ Last(events).Team = T
           /\ Last(events).From = pre.sub_out.name
           /\ Last(events).To = call.name
           /\ sub_mode = FALSE
           /\ sub_out = NoPlayer

\* A substitution of the player at the head of a lineup.
C7_Witness ==
    /\ SubInClick
    /\ pre.onfield[call.team][1] = pre.sub_out.name
    /\ onfield[call.team][1] = call.name

-----------------------------------------------------------------------------
\* C8: a click in sub mode fails exactly in three cases (OUT step on a player
\* not on the field; IN step on a player of the other team; IN step on a
\* player already on the field); it then raises and changes nothing.

OutStepOffField ==
    SubClick /\ pre.sub_out = NoPlayer
             /\ ~In(call.name, pre.onfield[call.team])

InStepOtherTeam ==
    SubClick /\ pre.sub_out # NoPlayer /\ call.team # pre.sub_out.team

InStepOnField ==
    SubClick /\ pre.sub_out # NoPlayer /\ call.team = pre.sub_out.team
             /\ In(call.name, pre.onfield[call.team])

FailingSubClick == OutStepOffField \/ InStepOtherTeam \/ InStepOnField

\* C8 as claimed: every variable, last_clicked included, keeps its value.
C8_FailedSubClickChangesNothing ==
    FailingSubClick => (call.error # "" /\ State = pre)

\* C8 as amended: last_clicked becomes the clicked player (click_player
\* records the click before it enters the substitution flow); every other
\* variable keeps its value.
C8_FailedSubClickChangesOnlyLastClicked ==
    /\ FailingSubClick =>
          /\ call.error # ""
          /\ call.created = <<>>
          /\ State = [pre EXCEPT !.last_clicked = Clicked]
    /\ (SubClick /\ call.error # "") => FailingSubClick

\* An IN click on a player already on the field, after a click on another player.
C8_Witness == InStepOnField /\ last_clicked # pre.last_clicked

-----------------------------------------------------------------------------
\* C9: a call of press_score, press_drop, press_turn or press_pull either
\* succeeds and appends exactly one row (after press_drop's removal of the
\* trailing PASS, nothing else of the log changing), or raises and leaves the
\* log and every variable of the session as before the call.

C9_ButtonAppendsOneRowOrChangesNothing ==
    call.op \in Buttons =>
        \/ /\ call.error = ""
           /\ Len(call.created) = 1
           /\ events # <<>>
           /\ Last(events) = call.created[1]
           /\ \/ Front(events) = pre.events
              \/ /\ call.op = "press_drop"
                 /\ pre.events # <<>>
                 /\ Last(pre.events).Event = "PASS"
                 /\ Front(events) = Front(pre.events)
        \/ /\ call.error # ""
           /\ call.created = <<>>
           /\ State = pre

\* A press_drop that fails with a PASS at the end of the log.
C9_Witness ==
    /\ call.op = "press_drop"
    /\ call.error # ""
    /\ events # <<>>
    /\ Last(events).Event = "PASS"

-----------------------------------------------------------------------------
\* C10: undo_last(n) removes exactly the last min(n, length) rows of the log,
\* keeps the other rows as they were, and changes nothing else of the
\* session, so the live state may contradict the tail of the log.

C10_UndoTruncatesLogOnly ==
    call.op = "undo_last" =>
        LET removed == IF call.n < Len(pre.events)
                       THEN call.n ELSE Len(pre.events)
        IN /\ Len(events) = Len(pre.events) - removed
           /\ IsPrefix(events, pre.events)
           /\ State = [pre EXCEPT !.events = events]

\* An undo asked to remove more rows than there are, which leaves an empty
\* log under a session that still remembers its last throw.
C10_Witness ==
    /\ call.op = "undo_last"
    /\ call.n > Len(pre.events)
    /\ pre.events # <<>>
    /\ events = <<>>
    /\ last_throw # <<>>
-----------------------------------------------------------------------------
\* C11: no call but undo_last ever shortens the log: click_player,
\* press_score, press_drop, press_turn, press_pull and start_sub leave it as
\* long or longer, whether they return or raise.

C11_OnlyUndoShortensLog ==
    call.op \in Buttons \cup {"click_player", "start_sub"} =>
        Len(events) >= Len(pre.events)

\* A press_drop that took the trailing PASS off a log of two rows or more,
\* and left the log as long as it was.
C11_Witness ==
    /\ Succeeded("press_drop")
    /\ Len(pre.events) >= 2
    /\ Last(pre.events).Event = "PASS"
    /\ Len(events) = Len(pre.events)
-----------------------------------------------------------------------------
\* C12: the OnFieldTeamA and OnFieldTeamB of every row are the two on-field
\* lists at the moment the row was appended (for a SUB row the lists after
\* the swap, with the IN and without the OUT player), and no later call
\* changes a row that is still in the log: a call takes rows off the end of
\* the log and appends the rows it made, nothing else.

\* The list of names a JSON text of json_dumps stands for: between the
\* brackets, every name sits between two quotes, and ", " follows all but
\* the last.
RECURSIVE json_loads_items(_)
json_loads_items(tokens) ==
    IF tokens = <<>> THEN <<>>
    ELSE <<tokens[2]>> \o json_loads_items(SubSeq(tokens, 5, Len(tokens)))

json_loads(text) == json_loads_items(SubSeq(text, 2, Len(text) - 1))

C12_RowsSnapshotOnField ==
    /\ \A i \in 1..Len(call.created) :
          /\ json_loads(call.created[i].OnFieldTeamA) = onfield["A"]
          /\ json_loads(call.created[i].OnFieldTeamB) = onfield["B"]
          /\ call.created[i].Event # "SUB" => onfield = pre.onfield
          /\ call.created[i].Event = "SUB" =>
                LET lineup == IF call.created[i].Team = "A"
                              THEN json_loads(call.created[i].OnFieldTeamA)
                              ELSE json_loads(call.created[i].OnFieldTeamB)
                IN /\ In(call.created[i].To, lineup)
                   /\ ~In(call.created[i].From, lineup)
    /\ \E kept \in 0..Len(pre.events) :
          events = SubSeq(pre.events, 1, kept) \o call.created

\* A substitution in team A logged after an earlier row: the earlier row
\* still shows the lineup of its own moment, which is no longer the lineup.
C12_Witness ==
    /\ Len(events) >= 2
    /\ Last(events).Event = "SUB"
    /\ Last(events).Team = "A"
    /\ json_loads(events[1].OnFieldTeamA) # onfield["A"]
    /\ json_loads(events[1].OnFieldTeamA) = pre.onfield["A"]
-----------------------------------------------------------------------------
\* C13: point_number starts at 1, is at least 1 in every reachable state, and
\* changes only at a successful press_score, by exactly +1: clicks,
\* press_drop, press_turn, press_pull, substitution, undo_last and every
\* call that raises leave it as it was, so it never decreases.

C13_PointNumberCountsScores ==
    /\ calls = 0 => point_number = 1
    /\ point_number >= 1
    /\ point_number >= pre.point_number
    /\ IF Succeeded("press_score")
       THEN point_number = pre.point_number + 1
       ELSE point_number = pre.point_number

\* An undo that takes the S row of the first point off the log and leaves
\* the session in its second point.
C13_Witness ==
    /\ call.op = "undo_last"
    /\ pre.events # <<>>
    /\ Last(pre.events).Event = "S"
    /\ Len(events) < Len(pre.events)
    /\ point_number = 2
-----------------------------------------------------------------------------
\* C14: while await_new_holder_team is set and sub_mode is not, a click on a
\* player of the team that is not awaited is silently ignored: it raises
\* nothing, appends no row and changes nothing.

WrongTeamClick ==
    /\ PlayClick
    /\ pre.await_new_holder_team # None
    /\ call.team # pre.await_new_holder_team

\* C14 as claimed: every variable, last_clicked included, keeps its value.
C14_WrongTeamClickChangesNothing ==
    WrongTeamClick =>
        (call.error = "" /\ call.created = <<>> /\ State = pre)

\* C14 as amended: last_clicked becomes the clicked player (click_player
\* records every click before it resolves it); the log and every other
\* variable keep their values.
C14_WrongTeamClickChangesOnlyLastClicked ==
    WrongTeamClick =>
        /\ call.error = ""
        /\ call.created = <<>>
        /\ State = [pre EXCEPT !.last_clicked = Clicked]

\* A click of the team that just dropped the disc, on another player than
\* the dropper, while the other team is awaited.
C14_Witness ==
    /\ WrongTeamClick
    /\ pre.events # <<>>
    /\ Last(pre.events).Event = "O"
    /\ pre.last_clicked # Clicked
    /\ last_clicked = Clicked
-----------------------------------------------------------------------------
\* C15: last_throw is cleared whenever possession changes by other means
\* than a plain pass: after a call that changed possession_team, last_throw
\* is unset; so whenever last_throw is set, both its players are of the
\* current possession_team.

C15_ThrowClearedWhenPossessionChanges ==
    /\ possession_team # pre.possession_team => last_throw = <<>>
    /\ last_throw # <<>> =>
          /\ last_throw[1].team = possession_team
          /\ last_throw[2].team = possession_team
-----------------------------------------------------------------------------
\* C16: press_score, with possession_team and last_clicked set, resolves the
\* From / To of its S row in this order: the thrower / receiver of last_throw
\* when it is set, whatever last_clicked is; else the holder / last_clicked
\* when last_clicked is of the possession team; else it raises the
\* cannot-resolve error and appends nothing.

ScorePressed ==
    /\ call.op = "press_score"
    /\ pre.possession_team # None
    /\ pre.last_clicked # NoPlayer

CannotResolve ==
    /\ call.error = "Cannot resolve thrower/receiver for S. Click a receiver on the possession team."
    /\ call.created = <<>>
    /\ events = pre.events

ScoredFromTo(thrower, receiver) ==
    /\ call.error = ""
    /\ events # <<>>
    /\ Front(events) = pre.events
    /\ Last(events).Event = "S"
    /\ Last(events).From = thrower.name
    /\ Last(events).To = receiver.name

\* C16 as claimed: a last click on the possession team is enough for the
\* second rule.
C16_ScoreResolvesThrowThenClick ==
    ScorePressed =>
        IF pre.last_throw # <<>>
        THEN ScoredFromTo(pre.last_throw[1], pre.last_throw[2])
        ELSE IF pre.last_clicked.team = pre.possession_team
        THEN ScoredFromTo(pre.last_holder, pre.last_clicked)
        ELSE CannotResolve

\* C16 as amended: the second rule also needs a holder; with no holder (and
\* no last_throw) the call raises the cannot-resolve error.
C16_ScoreResolvesThrowThenHolderAndClick ==
    ScorePressed =>
        IF pre.last_throw # <<>>
        THEN ScoredFromTo(pre.last_throw[1], pre.last_throw[2])
        ELSE IF /\ pre.last_holder # NoPlayer
                /\ pre.last_clicked.team = pre.possession_team
        THEN ScoredFromTo(pre.last_holder, pre.last_clicked)
        ELSE CannotResolve

\* A score that takes last_throw although the last click was on another
\* player than its receiver.
C16_Witness ==
    /\ ScorePressed
    /\ pre.last_throw # <<>>
    /\ pre.last_clicked # pre.last_throw[2]
    /\ call.error = ""
-----------------------------------------------------------------------------
\* C17: press_turn succeeds exactly when possession_team and last_holder are
\* both set.  It then appends exactly one TURN row (Team the team that had
\* possession, From the holder, To empty) and no D row, gives possession to
\* the other team, awaits a new holder of that team and unsets last_holder
\* and last_throw: the possession state a drop leaves.  Otherwise it raises
\* and changes nothing.

TurnSucceeds(s) ==
    /\ s.possession_team # None
    /\ s.last_holder # NoPlayer

C17_TurnLogsOneRowAndFlipsPossession ==
    call.op = "press_turn" =>
        IF TurnSucceeds(pre)
        THEN /\ call.error = ""
             /\ Len(events) = Len(pre.events) + 1
             /\ Front(events) = pre.events
             /\ call.created = <<Last(events)>>
             /\ Last(events).Event = "TURN"
             /\ Last(events).Team = pre.possession_team
             /\ Last(events).From = pre.last_holder.name
             /\ Last(events).To = ""
             /\ possession_team = Opponent(pre.possession_team)
             /\ await_new_holder_team = Opponent(pre.possession_team)
             /\ last_holder = NoPlayer
             /\ last_throw = <<>>
        ELSE /\ call.error # ""
             /\ State = pre

\* A turn pressed while a completed pass is on record.
C17_Witness ==
    /\ call.op = "press_turn"
    /\ TurnSucceeds(pre)
    /\ pre.last_throw # <<>>
    /\ call.error = ""
-----------------------------------------------------------------------------
\* C18: a completed substitution that takes the holder off the field unsets
\* last_holder and keeps possession_team.  The next click outside sub mode,
\* by a player of either team, then establishes a new first holder: it
\* appends no row, sets last_holder to the clicked player and possession_team
\* to the clicked player's team.

\* Possession without a holder and nothing awaited: the state a substitution
\* of the holder leaves.
HolderVoided(s) ==
    /\ s.possession_team # None
    /\ s.last_holder = NoPlayer
    /\ s.await_new_holder_team = None
    /\ ~s.await_pull

HolderSubbedOut ==
    /\ SubInClick
    /\ call.error = ""
    /\ pre.last_holder = pre.sub_out

C18_SubbedOutHolderThenFirstHolder ==
    /\ HolderSubbedOut =>
          /\ last_holder = NoPlayer
          /\ possession_team = pre.possession_team
          /\ HolderVoided(State)
          /\ ~sub_mode
    /\ (HolderVoided(State) /\ ~HolderVoided(pre)) => HolderSubbedOut
    /\ (PlayClick /\ HolderVoided(pre)) =>
          /\ call.error = ""
          /\ call.created = <<>>
          /\ events = pre.events
          /\ last_holder = Clicked
          /\ possession_team = call.team

\* After the holder left the field, a player of the other team is clicked.
C18_Witness ==
    /\ PlayClick
    /\ HolderVoided(pre)
    /\ call.team # pre.possession_team
    /\ last_holder = Clicked
-----------------------------------------------------------------------------
\* C19: last_clicked is always the player of the most recent click_player
\* call, whatever the call's outcome (row logged, click ignored while a pull
\* or the other team is awaited, substitution step), and a button press
\* takes it as its subject.  After a score, a click on X is ignored by click
\* resolution, yet the pull that follows logs a P row From X for X's team.

\* A click that click resolution ignores because a pull is awaited.
ClickBeforePull == PlayClick /\ pre.await_pull

C19_LastClickedIsMostRecentClick ==
    /\ call.op = "click_player" => last_clicked = Clicked
    /\ call.op # "click_player" => last_clicked = pre.last_clicked
    /\ ClickBeforePull =>
          /\ call.error = ""
          /\ call.created = <<>>
          /\ State = [pre EXCEPT !.last_clicked = Clicked]
    /\ Succeeded("press_pull") =>
          /\ events # <<>>
          /\ Front(events) = pre.events
          /\ Last(events).Event = "P"
          /\ Last(events).From = pre.last_clicked.name
          /\ Last(events).Team = pre.last_clicked.team
    /\ Succeeded("press_drop") =>
          /\ events # <<>>
          /\ Last(events).Event = "O"
          /\ Last(events).From = pre.last_clicked.name
          /\ Last(events).Team = pre.last_clicked.team

\* A pull right after a score, by a player of the team that did not score
\* and who is not the holder the score left.
C19_Witness ==
    /\ Succeeded("press_pull")
    /\ pre.await_pull
    /\ ~pre.sub_mode
    /\ pre.events # <<>>
    /\ Last(pre.events).Event = "S"
    /\ pre.last_clicked.team # Last(pre.events).Team
    /\ Last(events).From = pre.last_clicked.name
-----------------------------------------------------------------------------
\* C20: in every reachable state, a holder implies that possession_team is
\* set and is the holder's team; equivalently, with possession_team unset
\* there is no holder.

C20_HolderIsOnPossessionTeam ==
    /\ last_holder # NoPlayer =>
          /\ possession_team \in TeamKey
          /\ possession_team = last_holder.team
    /\ possession_team = None => last_holder = NoPlayer

\* A holder of the team that did not have possession before the call.
C20_Witness ==
    /\ last_holder # NoPlayer
    /\ pre.possession_team # None
    /\ possession_team # pre.possession_team
    /\ last_holder.team = possession_team
-----------------------------------------------------------------------------
\* C21: in every reachable state await_pull and await_new_holder_team are
\* never set together; while either is set, last_holder and last_throw are
\* unset, and while await_pull is set possession_team is unset as well.  So
\* a click finds at most one waiting flag, and the order in which click
\* resolution tests the two flags changes no outcome.

Waiting(s) == s.await_pull \/ s.await_new_holder_team # None

C21_WaitingFlagsExcludeEachOther ==
    /\ ~(await_pull /\ await_new_holder_team # None)
    /\ Waiting(State) => (last_holder = NoPlayer /\ last_throw = <<>>)
    /\ await_pull => possession_team = None
    /\ (PlayClick /\ pre.await_pull) =>
          /\ events = pre.events
          /\ possession_team = pre.possession_team
          /\ last_holder = pre.last_holder
          /\ await_pull
    /\ (PlayClick /\ pre.await_new_holder_team # None) =>
          /\ events = pre.events
          /\ ~await_pull
          /\ IF call.team = pre.await_new_holder_team
             THEN last_holder = Clicked /\ await_new_holder_team = None
             ELSE last_holder = NoPlayer
                  /\ await_new_holder_team = pre.await_new_holder_team

\* A pull pressed while a pull is awaited after a score of a completed pass:
\* one waiting flag is replaced by the other.
C21_Witness ==
    /\ Succeeded("press_pull")
    /\ pre.await_pull
    /\ ~await_pull
    /\ await_new_holder_team # None
    /\ pre.events # <<>>
    /\ Last(pre.events).Event = "S"
-----------------------------------------------------------------------------
\* C22: in every reachable log, those shortened by undo_last or by a drop's
\* revocation of a trailing PASS included, every D row comes right after a
\* TURN row of the other team with the same Point; a D row is never the
\* first row and never follows a row of another kind.

DFollowsTurn(rows, i) ==
    /\ i > 1
    /\ rows[i - 1].Event = "TURN"
    /\ rows[i - 1].Team \in TeamKey
    /\ rows[i].Team = Opponent(rows[i - 1].Team)
    /\ rows[i - 1].Point = rows[i].Point

C22_EveryDFollowsItsTurn ==
    \A i \in 1..Len(events) :
        events[i].Event = "D" => DFollowsTurn(events, i)

\* The log was shortened, by an undo or by a drop's revocation, down to or
\* next to a D row that is still in it.
C22_Witness ==
    /\ \E i \in 1..Len(events) : events[i].Event = "D"
    /\ \/ /\ call.op = "undo_last"
          /\ Len(events) < Len(pre.events)
          /\ Last(events).Event = "D"
       \/ /\ Succeeded("press_drop")
          /\ Len(events) = Len(pre.events)
          /\ Len(events) > 1
          /\ events[Len(events) - 1].Event = "D"

====
